---------------------------- MODULE Spec2Model ----------------------------
(***************************************************************************)
(* The Bencode decoder of src/src/bencode.rs (struct Parser) as a state    *)
(* machine.  The recursive descent of Parser::parse is unfolded into an    *)
(* explicit call stack: one frame per active call of parse, advance_to or  *)
(* advance_exact, one action per match arm, loop iteration or return.      *)
(*                                                                         *)
(* Bytes are the integers 0..255.  Buffer indices in the source are        *)
(* 0-based; TLA+ sequences are 1-based, so data[i] of the source is        *)
(* data[i + 1] here.  The cursor `current` keeps the source's 0-based      *)
(* value.                                                                  *)
(*                                                                         *)
(* A Rust panic (index out of bounds, panic!) is the outcome "panic"; an   *)
(* Err propagated by `?` or bail! is the outcome "Err".  Unwinding runs no *)
(* code of the parser, so on either failure the frames are left as they    *)
(* were at the point of failure.                                           *)
(***************************************************************************)
EXTENDS Integers, Sequences, FiniteSets, TLC

VARIABLES
    data,       \* Parser.data: the buffer (never modified after construction)
    current,    \* Parser.current: the cursor, 0-based
    stack,      \* the active calls, innermost last
    ret,        \* the value returned by the call that returned last
    outcome,    \* "running" | "Ok" | "Err" | "panic": how the top-level parse() ended
    error,      \* which Err or panic ended the run ("" while there is none)
    steps,      \* number of steps taken so far
    input       \* what the buffer was built from (<<"raw">> for an arbitrary buffer)

vars == <<data, current, stack, ret, outcome, error, steps, input>>

---------------------------------------------------------------------------
(* Bounds of the model. *)

\* longest arbitrary buffer
MaxLen == 4
\* longest byte-string payload drawn from the whole alphabet
MaxBytesLen == 3
\* longest byte-string payload at all (one repeated byte beyond MaxBytesLen),
\* so that length prefixes of two digits occur
MaxLongBytes == 11
\* most elements of a top-level list
MaxElems == 2
\* most pairs of a top-level dictionary
MaxPairs == 2
\* isize and usize are narrowed to WordBits bits, so that the overflow
\* boundary of str::parse lies within the numbers the buffers can spell
WordBits == 6
\* how far beyond the isize range the integer texts go
OverflowMargin == 75

---------------------------------------------------------------------------
(* The bytes the source names. *)

B_d == 100
B_l == 108
B_i == 105
B_e == 101
B_colon == 58
B_0 == 48
B_9 == 57
\* the sign bytes str::parse accepts
B_minus == 45
B_plus == 43

IsDigit(b) == b >= B_0 /\ b <= B_9

---------------------------------------------------------------------------
(* enum Bencode *)

Integer(n) == <<"Integer", n>>
Bytes(b) == <<"Bytes", b>>
List(l) == <<"List", l>>
Dictionary(d) == <<"Dictionary", d>>

\* HashMap::new()
EmptyMap == [k \in {} |-> <<>>]

\* HashMap::insert: a later insert of the same key replaces the value
Insert(dict, key, value) ==
    [k \in (DOMAIN dict) \cup {key} |-> IF k = key THEN value ELSE dict[k]]

---------------------------------------------------------------------------
(* isize / usize *)

RECURSIVE Pow2(_)
Pow2(n) ==
    IF n = 0 THEN 1 ELSE 2 * Pow2(n - 1)

IsizeMax == Pow2(WordBits - 1) - 1
IsizeMin == - Pow2(WordBits - 1)
UsizeMax == Pow2(WordBits) - 1

---------------------------------------------------------------------------
(* String::from_utf8: the bytes are kept as they are when they are valid    *)
(* UTF-8, and the conversion fails otherwise.                              *)

IsCont(b) == b >= 128 /\ b <= 191

RECURSIVE Utf8ValidFrom(_, _)
Utf8ValidFrom(s, i) ==
    IF i > Len(s) THEN TRUE
    ELSE LET b == s[i]
             has(k) == i + k <= Len(s)
             c(k) == s[i + k]
         IN  IF b < 128 THEN Utf8ValidFrom(s, i + 1)
             ELSE IF b >= 194 /\ b <= 223
                  THEN has(1) /\ IsCont(c(1)) /\ Utf8ValidFrom(s, i + 2)
             ELSE IF b = 224
                  THEN has(2) /\ c(1) >= 160 /\ c(1) <= 191 /\ IsCont(c(2))
                       /\ Utf8ValidFrom(s, i + 3)
             ELSE IF (b >= 225 /\ b <= 236) \/ b = 238 \/ b = 239
                  THEN has(2) /\ IsCont(c(1)) /\ IsCont(c(2))
                       /\ Utf8ValidFrom(s, i + 3)
             ELSE IF b = 237
                  THEN has(2) /\ c(1) >= 128 /\ c(1) <= 159 /\ IsCont(c(2))
                       /\ Utf8ValidFrom(s, i + 3)
             ELSE IF b = 240
                  THEN has(3) /\ c(1) >= 144 /\ c(1) <= 191 /\ IsCont(c(2))
                       /\ IsCont(c(3)) /\ Utf8ValidFrom(s, i + 4)
             ELSE IF b >= 241 /\ b <= 243
                  THEN has(3) /\ IsCont(c(1)) /\ IsCont(c(2)) /\ IsCont(c(3))
                       /\ Utf8ValidFrom(s, i + 4)
             ELSE IF b = 244
                  THEN has(3) /\ c(1) >= 128 /\ c(1) <= 143 /\ IsCont(c(2))
                       /\ IsCont(c(3)) /\ Utf8ValidFrom(s, i + 4)
             ELSE FALSE

from_utf8(s) ==
    IF Utf8ValidFrom(s, 1) THEN <<"Ok", s>> ELSE <<"Err", "FromUtf8Error">>

---------------------------------------------------------------------------
(* str::parse::<isize>() and str::parse::<usize>(): an optional sign, then  *)
(* decimal digits accumulated with checked arithmetic.                     *)

RECURSIVE Accumulate(_, _, _, _, _, _)
Accumulate(s, i, acc, positive, min, max) ==
    IF i > Len(s) THEN <<"Ok", acc>>
    ELSE IF ~IsDigit(s[i]) THEN <<"Err", "ParseIntError">>     \* InvalidDigit
    ELSE LET digit == s[i] - B_0
             mul == acc * 10
         IN  IF mul > max \/ mul < min
             THEN <<"Err", "ParseIntError">>                  \* checked_mul
             ELSE LET next == IF positive THEN mul + digit ELSE mul - digit
                  IN  IF next > max \/ next < min
                      THEN <<"Err", "ParseIntError">>         \* checked_add/sub
                      ELSE Accumulate(s, i + 1, next, positive, min, max)

from_str_radix(s, is_signed, min, max) ==
    IF s = <<>> THEN <<"Err", "ParseIntError">>               \* Empty
    ELSE IF Len(s) = 1 /\ (s[1] = B_plus \/ s[1] = B_minus)
         THEN <<"Err", "ParseIntError">>                      \* InvalidDigit
    ELSE IF s[1] = B_plus THEN Accumulate(s, 2, 0, TRUE, min, max)
    ELSE IF s[1] = B_minus /\ is_signed THEN Accumulate(s, 2, 0, FALSE, min, max)
    ELSE Accumulate(s, 1, 0, TRUE, min, max)

parse_usize(s) == from_str_radix(s, FALSE, 0, UsizeMax)

\* the integer arm parsing its digits as the bytes arm does: parse::<usize>()
parse_isize_as_usize(s) == from_str_radix(s, FALSE, 0, UsizeMax)

parse_isize(s) == from_str_radix(s, TRUE, IsizeMin, IsizeMax)

---------------------------------------------------------------------------
(* struct Parser: the cursor primitives *)

\* the bounds test with >= for >: advance() then stops at the end of the
\* buffer and previous() hands out the last byte again
is_at_end_ge(cur) == cur >= Len(data)

is_at_end(cur) == cur > Len(data)

\* whether data[i] of the source is within bounds
InBounds(i) == i >= 0 /\ i < Len(data)

\* peek(): &self.data[self.current]; it panics when PeekInBounds is false
PeekInBounds == InBounds(current)

peek == data[current + 1]

\* previous() reading at the cursor instead of before it: self.data[cur]
previous_at_cursor(cur) ==
    [ok |-> InBounds(cur), byte |-> IF InBounds(cur) THEN data[cur + 1] ELSE 0]

\* previous() called with the cursor at cur: self.data[cur - 1]
previous(cur) ==
    [ok |-> InBounds(cur - 1), byte |-> IF InBounds(cur - 1) THEN data[cur] ELSE 0]

\* advance() called with the cursor at cur: the cursor it leaves, whether
\* previous() then stays within bounds, and the byte returned
advance(cur) ==
    LET new == IF ~is_at_end(cur) THEN cur + 1 ELSE cur
        p == previous(new)
    IN  [current |-> new, ok |-> p.ok, byte |-> p.byte]

---------------------------------------------------------------------------
(* The call stack *)

None == <<"None">>
NoError == <<"", 0>>

\* a call of parse() entered with the cursor at start; iter is the cursor at
\* the loop test that began the running iteration of its while loop
ParseFrame(start) ==
    [fn |-> "parse", pc |-> "match", start |-> start, iter |-> start,
     dict |-> EmptyMap, list |-> <<>>, key |-> None]

\* a call of advance_to(char)
AdvanceToFrame(char) ==
    [fn |-> "advance_to", pc |-> "while", char |-> char, data |-> <<>>]

\* a call of advance_exact(size); i counts the iterations of `for _ in 0..size`
AdvanceExactFrame(size) ==
    [fn |-> "advance_exact", pc |-> "for", size |-> size, i |-> 0, data |-> <<>>]

Top == stack[Len(stack)]

SetTop(f) == [stack EXCEPT ![Len(stack)] = f]

Pop == SubSeq(stack, 1, Len(stack) - 1)

Running == outcome = "running" /\ stack # <<>>

At(fn, pc) == Running /\ Top.fn = fn /\ Top.pc = pc

\* a panic or a propagated Err ends the run with the cursor at cur
Fail(kind, err, cur) ==
    /\ outcome' = kind
    /\ error' = err
    /\ current' = cur
    /\ steps' = steps + 1
    /\ UNCHANGED <<data, stack, ret, input>>

IndexPanic(cur, index) == Fail("panic", <<"index out of bounds", index>>, cur)

\* the running call goes on, within its frame or by calling
Continue(newStack, cur) ==
    /\ stack' = newStack
    /\ current' = cur
    /\ steps' = steps + 1
    /\ UNCHANGED <<data, ret, outcome, error, input>>

\* the running call returns v to its caller; the outermost parse() returns
\* Ok(v) to the caller of the parser
Return(v, cur) ==
    /\ stack' = Pop
    /\ ret' = v
    /\ current' = cur
    /\ outcome' = IF Len(stack) = 1 THEN "Ok" ELSE outcome
    /\ steps' = steps + 1
    /\ UNCHANGED <<data, error, input>>

---------------------------------------------------------------------------
(* main: parser.parse() *)

Call ==
    /\ outcome = "new"
    /\ outcome' = "running"
    /\ stack' = <<ParseFrame(current)>>
    /\ steps' = steps + 1
    /\ UNCHANGED <<data, current, ret, error, input>>

---------------------------------------------------------------------------
(* Parser::parse: match self.peek() *)

\* peek() at the head of the match is out of bounds
ParsePeekPanic ==
    /\ At("parse", "match")
    /\ ~PeekInBounds
    /\ IndexPanic(current, current)

\* b'd' => self.advance(); let mut dict = HashMap::new();
ParseDictionary ==
    /\ At("parse", "match")
    /\ PeekInBounds /\ peek = B_d
    /\ LET a == advance(current)
       IN  IF ~a.ok THEN IndexPanic(a.current, a.current - 1)
           ELSE Continue(SetTop([Top EXCEPT !.pc = "dict_while", !.dict = EmptyMap]),
                         a.current)

\* b'l' => self.advance(); let mut list = vec![];
ParseList ==
    /\ At("parse", "match")
    /\ PeekInBounds /\ peek = B_l
    /\ LET a == advance(current)
       IN  IF ~a.ok THEN IndexPanic(a.current, a.current - 1)
           ELSE Continue(SetTop([Top EXCEPT !.pc = "list_while", !.list = <<>>]),
                         a.current)

\* b'i' => self.advance(); ... self.advance_to(b'e')
ParseInteger ==
    /\ At("parse", "match")
    /\ PeekInBounds /\ peek = B_i
    /\ LET a == advance(current)
       IN  IF ~a.ok THEN IndexPanic(a.current, a.current - 1)
           ELSE Continue(Append(SetTop([Top EXCEPT !.pc = "int_parse"]),
                                AdvanceToFrame(B_e)),
                         a.current)

\* b'0'..=b'9' => ... self.advance_to(b':')
ParseBytes ==
    /\ At("parse", "match")
    /\ PeekInBounds /\ IsDigit(peek)
    /\ Continue(Append(SetTop([Top EXCEPT !.pc = "bytes_size"]),
                       AdvanceToFrame(B_colon)),
                current)

\* x => panic!("Unknwon symbol {:?}", x)
ParseUnknown ==
    /\ At("parse", "match")
    /\ PeekInBounds
    /\ peek \notin {B_d, B_l, B_i} /\ ~IsDigit(peek)
    /\ Fail("panic", <<"Unknwon symbol", peek>>, current)

---------------------------------------------------------------------------
(* the dictionary arm *)

\* while self.peek() != &b'e' { let key = self.parse()? ...
\* and, when the loop ends, Ok(Bencode::Dictionary(dict))
DictWhile ==
    /\ At("parse", "dict_while")
    /\ IF ~PeekInBounds THEN IndexPanic(current, current)
       ELSE IF peek # B_e
            THEN Continue(Append(SetTop([Top EXCEPT !.pc = "dict_key", !.iter = current]),
                                 ParseFrame(current)),
                          current)
            ELSE Return(Dictionary(Top.dict), current)

\* let key = self.parse()?; let value = self.parse()? ...
DictKey ==
    /\ At("parse", "dict_key")
    /\ Continue(Append(SetTop([Top EXCEPT !.pc = "dict_value", !.key = ret]),
                       ParseFrame(current)),
                current)

\* let value = self.parse()?; if let Bencode::Bytes(key) = key { ... } else { bail! }
DictInsert ==
    /\ At("parse", "dict_value")
    /\ LET key == Top.key
           value == ret
       IN  IF key[1] = "Bytes"
           THEN LET s == from_utf8(key[2])
                IN  IF s[1] = "Err" THEN Fail("Err", <<s[2], 0>>, current)
                    ELSE Continue(SetTop([Top EXCEPT !.pc = "dict_while",
                                                     !.dict = Insert(@, s[2], value),
                                                     !.key = None]),
                                  current)
           ELSE Fail("Err", <<"key is not a string!", key>>, current)

---------------------------------------------------------------------------
(* the list arm *)

\* while self.peek() != &b'e' { let value = self.parse()? ...
\* and, when the loop ends, Ok(Bencode::List(list))
ListWhile ==
    /\ At("parse", "list_while")
    /\ IF ~PeekInBounds THEN IndexPanic(current, current)
       ELSE IF peek # B_e
            THEN Continue(Append(SetTop([Top EXCEPT !.pc = "list_value", !.iter = current]),
                                 ParseFrame(current)),
                          current)
            ELSE Return(List(Top.list), current)

\* let value = self.parse()?; list.push(value);
ListPush ==
    /\ At("parse", "list_value")
    /\ Continue(SetTop([Top EXCEPT !.pc = "list_while", !.list = Append(@, ret)]),
                current)

---------------------------------------------------------------------------
(* the integer arm *)

\* String::from_utf8(<advance_to(b'e')>)?.parse::<isize>()?; Ok(Bencode::Integer(value))
IntegerParse ==
    /\ At("parse", "int_parse")
    /\ LET s == from_utf8(ret)
       IN  IF s[1] = "Err" THEN Fail("Err", <<s[2], 0>>, current)
           ELSE LET value == parse_isize(s[2])
                IN  IF value[1] = "Err" THEN Fail("Err", <<value[2], 0>>, current)
                    ELSE Return(Integer(value[2]), current)

---------------------------------------------------------------------------
(* the bytes arm *)

\* let size = String::from_utf8(<advance_to(b':')>)?.parse::<usize>()?;
\* let content = self.advance_exact(size);
BytesSize ==
    /\ At("parse", "bytes_size")
    /\ LET s == from_utf8(ret)
       IN  IF s[1] = "Err" THEN Fail("Err", <<s[2], 0>>, current)
           ELSE LET size == parse_usize(s[2])
                IN  IF size[1] = "Err" THEN Fail("Err", <<size[2], 0>>, current)
                    ELSE Continue(Append(SetTop([Top EXCEPT !.pc = "bytes_content"]),
                                         AdvanceExactFrame(size[2])),
                                  current)

\* Ok(Bencode::Bytes(content))
BytesReturn ==
    /\ At("parse", "bytes_content")
    /\ Return(Bytes(ret), current)

---------------------------------------------------------------------------
(* advance_to *)

\* one test of `while self.peek() != &char` that goes on: data.push(self.advance())
AdvanceToStep ==
    /\ At("advance_to", "while")
    /\ IF PeekInBounds THEN peek # Top.char ELSE TRUE
    /\ IF ~PeekInBounds THEN IndexPanic(current, current)
       ELSE LET a == advance(current)
            IN  IF ~a.ok THEN IndexPanic(a.current, a.current - 1)
                ELSE Continue(SetTop([Top EXCEPT !.data = Append(@, a.byte)]),
                              a.current)

\* the loop ends at char: self.advance(); data
AdvanceToReturn ==
    /\ At("advance_to", "while")
    /\ PeekInBounds /\ peek = Top.char
    /\ LET a == advance(current)
       IN  IF ~a.ok THEN IndexPanic(a.current, a.current - 1)
           ELSE Return(Top.data, a.current)

---------------------------------------------------------------------------
(* advance_exact *)

\* one iteration of `for _ in 0..size`: data.push(self.advance())
AdvanceExactStep ==
    /\ At("advance_exact", "for")
    /\ Top.i < Top.size
    /\ LET a == advance(current)
       IN  IF ~a.ok THEN IndexPanic(a.current, a.current - 1)
           ELSE Continue(SetTop([Top EXCEPT !.i = @ + 1, !.data = Append(@, a.byte)]),
                         a.current)

\* the range is exhausted: data
AdvanceExactReturn ==
    /\ At("advance_exact", "for")
    /\ Top.i = Top.size
    /\ Return(Top.data, current)

---------------------------------------------------------------------------
(* The encodings the buffers are built from: the grammar                    *)
(*   dict := 'd' (bytestring value)* 'e'     list := 'l' value* 'e'         *)
(*   integer := 'i' ['-'] digit+ 'e'         bytestring := digit+ ':' bytes *)

RECURSIVE Digits(_)
Digits(m) ==
    IF m < 10 THEN <<B_0 + m>> ELSE Digits(m \div 10) \o <<B_0 + (m % 10)>>

\* the base-10 text of n
DecimalText(n) ==
    IF n < 0 THEN <<B_minus>> \o Digits(-n) ELSE Digits(n)

EncInteger(n) == <<B_i>> \o DecimalText(n) \o <<B_e>>

EncBytes(b) == DecimalText(Len(b)) \o <<B_colon>> \o b

RECURSIVE Enc(_)
RECURSIVE EncAll(_)
RECURSIVE EncMap(_)

\* enc(v1) .. enc(vk)
EncAll(vs) ==
    IF vs = <<>> THEN <<>> ELSE Enc(Head(vs)) \o EncAll(Tail(vs))

\* enc(k1) enc(v1) .. enc(kn) enc(vn) for the pairs of a map, in some order
EncMap(d) ==
    IF DOMAIN d = {} THEN <<>>
    ELSE LET k == CHOOSE x \in DOMAIN d : TRUE
         IN  EncBytes(k) \o Enc(d[k]) \o EncMap([x \in (DOMAIN d) \ {k} |-> d[x]])

Enc(v) ==
    IF v[1] = "Integer" THEN EncInteger(v[2])
    ELSE IF v[1] = "Bytes" THEN EncBytes(v[2])
    ELSE IF v[1] = "List" THEN <<B_l>> \o EncAll(v[2]) \o <<B_e>>
    ELSE <<B_d>> \o EncMap(v[2]) \o <<B_e>>

\* enc(k1) enc(v1) .. enc(kn) enc(vn) for a sequence of <<key, value>> pairs
RECURSIVE EncPairs(_)
EncPairs(ps) ==
    IF ps = <<>> THEN <<>>
    ELSE EncBytes(Head(ps)[1]) \o Enc(Head(ps)[2]) \o EncPairs(Tail(ps))

\* the map holding exactly the pairs of ps (their keys pairwise distinct)
MapOf(ps) ==
    [k \in {ps[j][1] : j \in DOMAIN ps} |->
        ps[CHOOSE j \in DOMAIN ps : ps[j][1] = k][2]]

DistinctKeys(ps) ==
    \A j, k \in DOMAIN ps : j # k => ps[j][1] # ps[k][1]

---------------------------------------------------------------------------
(* The inputs *)

SeqsUpTo(S, n) == UNION {[1..k -> S] : k \in 0..n}

\* every marker and delimiter, two digits, a sign, and 0xFF (never valid UTF-8)
Alphabet == {B_d, B_l, B_i, B_e, B_colon, B_0, B_0 + 1, B_minus, 255}

\* payloads: every sequence over the alphabet up to MaxBytesLen, and longer
\* runs of one byte
Payloads ==
    SeqsUpTo(Alphabet, MaxBytesLen)
    \cup {[j \in 1..n |-> b] : n \in (MaxBytesLen + 1)..MaxLongBytes, b \in Alphabet}

\* dictionary keys: valid UTF-8
Keys == {<<>>, <<97>>, <<B_e, B_d>>}

\* the values a container of an input holds: leaves, and nested containers
\* (empty, non-empty, nested twice)
Elements ==
    { Integer(-1), Bytes(<<>>), Bytes(<<97>>),
      List(<<>>), List(<<Integer(0)>>), List(<<List(<<>>)>>),
      Dictionary(EmptyMap), Dictionary(Insert(EmptyMap, <<97>>, Bytes(<<>>))) }

Start(buf, inp) ==
    /\ data = buf
    /\ input = inp
    /\ current = 0
    /\ stack = <<>>
    /\ ret = None
    /\ outcome = "new"
    /\ error = NoError
    /\ steps = 0

\* Parser::new(data) on an arbitrary buffer
InitRaw ==
    \E buf \in SeqsUpTo(Alphabet, MaxLen) : Start(buf, <<"raw">>)

\* ... on 'i' <base-10 text of n> 'e'
InitInteger ==
    \E n \in (IsizeMin - OverflowMargin)..(IsizeMax + OverflowMargin) :
        Start(EncInteger(n), <<"int", n>>)

\* ... on <decimal N> ':' b
InitBytes ==
    \E b \in Payloads : Start(EncBytes(b), <<"bytes", b>>)

\* ... on 'l' enc(v1) .. enc(vk) 'e'
InitList ==
    \E vs \in SeqsUpTo(Elements, MaxElems) :
        Start(<<B_l>> \o EncAll(vs) \o <<B_e>>, <<"list", vs>>)

\* ... on 'd' enc(k1) enc(v1) .. enc(kn) enc(vn) 'e', the keys pairwise distinct
InitDictionary ==
    \E ps \in SeqsUpTo(Keys \X Elements, MaxPairs) :
        /\ DistinctKeys(ps)
        /\ Start(<<B_d>> \o EncPairs(ps) \o <<B_e>>, <<"dict", ps>>)

Init == InitRaw \/ InitInteger \/ InitBytes \/ InitList \/ InitDictionary

Next ==
    \/ Call
    \/ ParsePeekPanic
    \/ ParseDictionary
    \/ ParseList
    \/ ParseInteger
    \/ ParseBytes
    \/ ParseUnknown
    \/ DictWhile
    \/ DictKey
    \/ DictInsert
    \/ ListWhile
    \/ ListPush
    \/ IntegerParse
    \/ BytesSize
    \/ BytesReturn
    \/ AdvanceToStep
    \/ AdvanceToReturn
    \/ AdvanceExactStep
    \/ AdvanceExactReturn

Spec == Init /\ [][Next]_vars

\* the parser is straight-line sequential code: a step that can be taken is taken
FairSpec == Spec /\ WF_vars(Next)

---------------------------------------------------------------------------
(* Vocabulary of the properties *)

Finished == outcome \in {"Ok", "Err", "panic"}

\* the running step is the return of a parse() call
ParseReturns == Running /\ Top.fn = "parse" /\ Len(stack') < Len(stack)

\* a while loop of parse() is at its test and sees its terminator
AtTerminator ==
    /\ At("parse", "dict_while") \/ At("parse", "list_while")
    /\ PeekInBounds
    /\ peek = B_e

\* the running call is about to read a byte at or beyond the end of the buffer
NeedsByteBeyondEnd ==
    /\ Running
    /\ current >= Len(data)
    /\ \/ Top.fn = "parse" /\ Top.pc \in {"match", "dict_while", "list_while"}
       \/ Top.fn = "advance_to"
       \/ Top.fn = "advance_exact" /\ Top.i < Top.size

\* parse() is at its match on a byte that begins no value
AtUnrecognizedMarker ==
    /\ At("parse", "match")
    /\ PeekInBounds
    /\ peek \notin {B_d, B_l, B_i}
    /\ ~IsDigit(peek)

\* some dictionary of the run has decoded a key that is not Bytes
NonBytesKeyDecoded ==
    \E j \in DOMAIN stack :
        /\ stack[j].fn = "parse"
        /\ stack[j].pc = "dict_value"
        /\ stack[j].key[1] # "Bytes"

\* The grammar of the format, as a recogniser: ValueEnd(buf, i) is the index
\* after the value that begins at index i (1-based), or 0 when none begins there.
RECURSIVE DigitsEnd(_, _)
DigitsEnd(buf, i) ==
    IF i <= Len(buf) /\ IsDigit(buf[i]) THEN DigitsEnd(buf, i + 1) ELSE i

RECURSIVE NumberAt(_, _, _)
NumberAt(buf, i, j) ==
    IF j <= i THEN 0 ELSE 10 * NumberAt(buf, i, j - 1) + (buf[j - 1] - B_0)

RECURSIVE ValueEnd(_, _)
RECURSIVE ListEnd(_, _)
RECURSIVE DictEnd(_, _)

BytestringEnd(buf, i) ==
    LET j == DigitsEnd(buf, i)
    IN  IF j = i \/ j > Len(buf) THEN 0
        ELSE IF buf[j] # B_colon THEN 0
        ELSE IF j + NumberAt(buf, i, j) > Len(buf) THEN 0
        ELSE j + NumberAt(buf, i, j) + 1

IntegerEnd(buf, i) ==
    LET k == IF i + 1 <= Len(buf) /\ buf[i + 1] = B_minus THEN i + 2 ELSE i + 1
        j == DigitsEnd(buf, k)
    IN  IF j = k \/ j > Len(buf) THEN 0
        ELSE IF buf[j] # B_e THEN 0
        ELSE j + 1

ListEnd(buf, i) ==
    IF i > Len(buf) THEN 0
    ELSE IF buf[i] = B_e THEN i + 1
    ELSE LET j == ValueEnd(buf, i)
         IN  IF j = 0 THEN 0 ELSE ListEnd(buf, j)

DictEnd(buf, i) ==
    IF i > Len(buf) THEN 0
    ELSE IF buf[i] = B_e THEN i + 1
    ELSE LET j == BytestringEnd(buf, i)
         IN  IF j = 0 THEN 0
             ELSE LET k == ValueEnd(buf, j)
                  IN  IF k = 0 THEN 0 ELSE DictEnd(buf, k)

ValueEnd(buf, i) ==
    IF i > Len(buf) THEN 0
    ELSE IF buf[i] = B_d THEN DictEnd(buf, i + 1)
    ELSE IF buf[i] = B_l THEN ListEnd(buf, i + 1)
    ELSE IF buf[i] = B_i THEN IntegerEnd(buf, i)
    ELSE IF IsDigit(buf[i]) THEN BytestringEnd(buf, i)
    ELSE 0

\* the buffer is, in its entirety, one value of the grammar
Conforms(buf) == ValueEnd(buf, 1) = Len(buf) + 1

---------------------------------------------------------------------------
(* The properties *)

\* C1: decoding 'l' enc(v1) .. enc(vk) 'e' returns List([v1, .., vk]): every
\* element, in input order, none dropped after a nested list or dictionary.
C1_ListDecodesAllElements ==
    (input[1] = "list" /\ Finished) =>
        (outcome = "Ok" /\ ret = List(input[2]))

\* C2: decoding 'd' enc(k1) enc(v1) .. enc(kn) enc(vn) 'e' with pairwise
\* distinct keys returns a Dictionary holding exactly those n pairs.
C2_DictionaryDecodesAllPairs ==
    (input[1] = "dict" /\ Finished) =>
        (outcome = "Ok" /\ ret = Dictionary(MapOf(input[2])))

\* C3: whenever decoding needs a byte at or beyond the end of the buffer, the
\* step taken returns the UnexpectedEof failure; the run does not abort.
C3_EofIsReturnedError ==
    [][NeedsByteBeyondEnd => (outcome' = "Err" /\ error'[1] = "UnexpectedEof")]_vars

\* C4: when the byte at the cursor at the start of a parse() call begins no
\* value, the step taken returns an "unrecognized marker" error carrying that
\* byte; the run does not abort.
C4_UnrecognizedMarkerIsReturnedError ==
    [][AtUnrecognizedMarker =>
          (outcome' = "Err" /\ error' = <<"UnrecognizedMarker", peek>>)]_vars

\* C5: a run in which a dictionary key position decoded to a value that is
\* not Bytes ends with the "key is not a string" error, whatever follows the key.
C5_NonBytesKeyFails ==
    (Finished /\ NonBytesKeyDecoded) =>
        (outcome = "Err" /\ error[1] = "key is not a string!")

\* C6: no value is returned for a buffer that is not, in its entirety, one
\* value of the grammar (the part of the claim that does not depend on how a
\* failure is delivered).
C6_NoValueFromMalformedBuffer ==
    (Finished /\ ~Conforms(data)) => outcome # "Ok"

\* C7: decoding <decimal N> ':' b returns Bytes(b), the N payload bytes
\* unchanged, whatever bytes b holds.
C7_BytesDecodeExactly ==
    (input[1] = "bytes" /\ Finished) =>
        (outcome = "Ok" /\ ret = Bytes(input[2]))

\* a payload holding a byte that is no text, a terminator and a delimiter
\* has been decoded
C7_Witness ==
    /\ input = <<"bytes", <<255, B_e, B_colon>>>>
    /\ outcome = "Ok"
    /\ ret = Bytes(<<255, B_e, B_colon>>)

\* C8: decoding 'i' <base-10 text of n> 'e' returns Integer(n) for every n of
\* the isize range, and fails with an error for every n outside it.
C8_IntegerDecodesOrOverflows ==
    (input[1] = "int" /\ Finished) =>
        IF IsizeMin <= input[2] /\ input[2] <= IsizeMax
        THEN outcome = "Ok" /\ ret = Integer(input[2])
        ELSE outcome = "Err" /\ error[1] = "ParseIntError"

\* the least isize, a negative number, has been decoded
C8_Witness ==
    /\ input = <<"int", IsizeMin>>
    /\ outcome = "Ok"
    /\ ret = Integer(IsizeMin)

\* C9: the step that returns a Dictionary or a List leaves the cursor one
\* position past the terminator the loop test saw.
C9_TerminatorConsumed ==
    [][AtTerminator => current' = current + 1]_vars

\* C10, step by step: the cursor never decreases; a parse() call that returns
\* has advanced the cursor; an iteration of the dictionary loop, the list
\* loop, advance_to or advance_exact advances the cursor or ends the run.
StepProgress ==
    /\ current' >= current
    /\ ParseReturns => current' > Top.start
    /\ (At("parse", "dict_value") \/ At("parse", "list_value")) =>
          (outcome' # "running" \/ current' > Top.iter)
    /\ (At("advance_to", "while") \/ (At("advance_exact", "for") /\ Top.i < Top.size)) =>
          (outcome' # "running" \/ current' > current)

\* C10: parse() terminates: with the progress above at every step, every run
\* reaches a final outcome, within a number of steps linear in the buffer length.
C10_Terminates ==
    /\ [][StepProgress]_vars
    /\ [](steps <= 4 * Len(data) + 2)
    /\ <>Finished

\* a run through nested loops and both helpers has ended with a value
C10_Witness ==
    /\ outcome = "Ok"
    /\ input[1] = "dict"
    /\ Len(input[2]) = 2
    /\ current = Len(data) - 1

=============================================================================
